---------------------------- MODULE Spec2Model ----------------------------
(***************************************************************************)
(* NexusDrive ETL pipeline: the weather and traffic label classifiers      *)
(* (dags/mock), the ingest/enrichment object (dags/data_ingest.py) and the *)
(* schema aligner (dags/data_transformation.py).                           *)
(*                                                                         *)
(* Cell values are tagged records [k |-> tag, v |-> payload]:              *)
(*   "num"  a number            "nan"  float NaN        "none" Python None *)
(*   "ts"   pd.Timestamp, v = seconds since midnight of day 0              *)
(*   "nat"  pd.NaT              "str"  a string, v = its text              *)
(*   "tstr" a string that pd.to_datetime parses, v = the instant it names  *)
(* A row is a function from column names to cell values; a column that is  *)
(* absent is a name outside the row's DOMAIN.                              *)
(***************************************************************************)
EXTENDS Integers, Sequences, FiniteSets, TLC

VARIABLES
    row,            \* generate_label: the record passed in
    label,          \* generate_label: what the call produced ("unset" before)
    time_val,       \* _map_traffic: the value passed in
    traffic_label,  \* _map_traffic: what the call produced ("unset" before)
    fs,             \* the two CSV files: a table, or "missing"
    heap,           \* the DataFrame objects, by object id (position)
    obj,            \* the DataIngest object's fields; a DataFrame field holds
                    \* an object id, 0 for None
    pc,             \* "new", "ready" (constructed), "failed" (a call raised)
    calls,          \* the enrich_* calls made so far, with what each returned
    aligner,        \* the DataAligner object's fields enriched_df, amazon_df
    last            \* the DataAligner method called last, with what it returned

labelVars   == <<row, label>>
trafficVars == <<time_val, traffic_label>>
ingestVars  == <<fs, heap, obj, pc, calls>>
alignVars   == <<aligner, last>>
vars == <<row, label, time_val, traffic_label, fs, heap, obj, pc, calls,
          aligner, last>>

\* The variables of a component that a specification does not exercise.
LabelIdle   == row = <<>> /\ label = "unset"
TrafficIdle == time_val = [k |-> "none", v |-> 0] /\ traffic_label = "unset"
IngestIdle  ==
    /\ fs = <<>> /\ heap = <<>> /\ obj = <<>> /\ pc = "idle" /\ calls = <<>>
AlignIdle   == aligner = <<>> /\ last = <<>>

Num(n) == [k |-> "num", v |-> n]
NaN    == [k |-> "nan", v |-> 0]
None   == [k |-> "none", v |-> 0]
NaT    == [k |-> "nat", v |-> 0]
Ts(t)  == [k |-> "ts", v |-> t]
Str(s) == [k |-> "str", v |-> s]
TStr(t) == [k |-> "tstr", v |-> t]

(***************************************************************************)
(* Python semantics the classifier relies on.                              *)
(***************************************************************************)
\* row.get(key, default)
Get(r, key, default) == IF key \in DOMAIN r THEN r[key] ELSE default

\* bool(x): None and 0 are falsy; NaN and any other number are truthy.
Truthy(x) ==
    CASE x.k = "none" -> FALSE
      [] x.k = "num"  -> x.v # 0
      [] OTHER        -> TRUE

IsNotNone(x) == x.k # "none"

\* x > n, x < n, ...: "T"/"F" on floats (every comparison with NaN is False),
\* "E" (TypeError) when the operand is None.
Cmp(x, holds) ==
    CASE x.k = "num" -> (IF holds THEN "T" ELSE "F")
      [] x.k = "nan" -> "F"
      [] OTHER       -> "E"

Gt(x, n) == Cmp(x, x.k = "num" /\ x.v > n)
Lt(x, n) == Cmp(x, x.k = "num" /\ x.v < n)
Ge(x, n) == Cmp(x, x.k = "num" /\ x.v >= n)
Le(x, n) == Cmp(x, x.k = "num" /\ x.v <= n)
\* x == n never raises.
EqNum(x, n) == IF x.k = "num" /\ x.v = n THEN "T" ELSE "F"

\* a and b, b evaluated only when a is True.
And3(a, b) == IF a = "T" THEN b ELSE a

(***************************************************************************)
(* WeatherMockGenerator.generate_label.  Column names as in the source.    *)
(* Precipitation is held in tenths of a millimetre, so that the source's   *)
(* thresholds 0.1, 1 and 2 mm are the integers 1, 10 and 20.               *)
(***************************************************************************)
RH      == "relative_humidity_2m (%)"
CC_LOW  == "cloud_cover_low (%)"
CC_TOT  == "cloud_cover (%)"
WS      == "wind_speed_10m (km/h)"
PRECIP  == "precipitation (mm)"
IS_DAY  == "is_day ()"

MeasureCols == {RH, CC_LOW, CC_TOT, WS, PRECIP, IS_DAY}

\* One rule: guard, then condition; a TypeError ends the call.
Rule(guard, cond, lbl, rest) ==
    IF guard
    THEN IF cond = "E" THEN "TypeError"
         ELSE IF cond = "T" THEN lbl ELSE rest
    ELSE rest

SunnyRule(cc_total, is_day) ==
    Rule(IsNotNone(cc_total) /\ IsNotNone(is_day),
         And3(Lt(cc_total, 30), EqNum(is_day, 1)),
         "Sunny", "Cloudy")

CloudyRule(cc_total, precip, is_day) ==
    Rule(Truthy(cc_total) /\ IsNotNone(precip),
         And3(Gt(cc_total, 70), Lt(precip, 10)),
         "Cloudy", SunnyRule(cc_total, is_day))

WindyRule(ws, precip, cc_total, is_day) ==
    Rule(Truthy(ws) /\ IsNotNone(precip),
         And3(And3(Ge(ws, 6), Le(ws, 12)), Lt(precip, 10)),
         "Windy", CloudyRule(cc_total, precip, is_day))

\* Faulty variant: the Windy rule tried before the Sandstorm rule.
SandstormRule_AfterWindy(ws, precip, rh, cc_total, is_day) ==
    Rule(Truthy(ws) /\ IsNotNone(precip),
         And3(And3(Ge(ws, 6), Le(ws, 12)), Lt(precip, 10)),
         "Windy",
         Rule(Truthy(ws) /\ IsNotNone(precip) /\ IsNotNone(rh),
              And3(And3(Gt(ws, 10), Lt(precip, 1)), Lt(rh, 40)),
              "Sandstorms", CloudyRule(cc_total, precip, is_day)))

SandstormRule(ws, precip, rh, cc_total, is_day) ==
    Rule(Truthy(ws) /\ IsNotNone(precip) /\ IsNotNone(rh),
         And3(And3(Gt(ws, 10), Lt(precip, 1)), Lt(rh, 40)),
         "Sandstorms", WindyRule(ws, precip, cc_total, is_day))

\* Faulty variant: the guard tests the wind speed only, so a None precipitation
\* reaches the comparison.
StormyRule_NoPrecipGuard(ws, precip, rh, cc_total, is_day) ==
    Rule(Truthy(ws),
         And3(Gt(ws, 12), Gt(precip, 20)),
         "Stormy", SandstormRule(ws, precip, rh, cc_total, is_day))

StormyRule(ws, precip, rh, cc_total, is_day) ==
    Rule(Truthy(ws) /\ IsNotNone(precip),
         And3(Gt(ws, 12), Gt(precip, 20)),
         "Stormy", SandstormRule(ws, precip, rh, cc_total, is_day))

FogRule(rh, cc_low, ws, precip, cc_total, is_day) ==
    Rule(Truthy(rh) /\ Truthy(cc_low) /\ IsNotNone(ws),
         And3(And3(Gt(rh, 90), Gt(cc_low, 80)), Lt(ws, 2)),
         "Fog", StormyRule(ws, precip, rh, cc_total, is_day))

IsDayDefault == Num(1)

\* Faulty variant: a missing wind speed is read as the number 0.
generate_label_WsZero(r) ==
    FogRule(Get(r, RH, None), Get(r, CC_LOW, None), Get(r, WS, Num(0)),
            Get(r, PRECIP, None), Get(r, CC_TOT, None),
            Get(r, IS_DAY, IsDayDefault))

generate_label(r) ==
    FogRule(Get(r, RH, None), Get(r, CC_LOW, None), Get(r, WS, None),
            Get(r, PRECIP, None), Get(r, CC_TOT, None),
            Get(r, IS_DAY, IsDayDefault))


(***************************************************************************)
(***************************************************************************)
(* TrafficMockGenerator._map_traffic.                                      *)
(*                                                                         *)
(* A str argument that matches the regular expression strptime builds for  *)
(* "%m-%d %H:%M:%S" is [k |-> "mdhms", v |-> <<month, day, hour, minute,   *)
(* second>>] with month 1..12, day 1..31, hour 0..23, minute 0..59 and     *)
(* second 0..61; any other str is "str" or "tstr".                         *)
(***************************************************************************)
MDHMS(mo, d, h, mi, s) == [k |-> "mdhms", v |-> <<mo, d, h, mi, s>>]

\* A time of day (datetime.time) as its second of the day; the order of
\* datetime.time values is the order of these numbers.
TimeOfDay(h, mi, s) == (h * 60 + mi) * 60 + s

\* Days of each month of the year 1900, the year strptime assumes when the
\* format has no %Y; 1900 is not a leap year.
DaysInMonth1900 == <<31, 28, 31, 30, 31, 30, 31, 31, 30, 31, 30, 31>>

\* datetime.strptime(x, "%m-%d %H:%M:%S") returns (and does not raise).
strptime_ok(x) ==
    /\ x.k = "mdhms"
    /\ x.v[2] <= DaysInMonth1900[x.v[1]]
    /\ x.v[5] <= 59

\* The if/elif chain over t.
TrafficBucket(t) ==
    IF TimeOfDay(7, 0, 0) <= t /\ t <= TimeOfDay(9, 0, 0) THEN "High"
    ELSE IF TimeOfDay(17, 0, 0) <= t /\ t <= TimeOfDay(19, 0, 0) THEN "Jam"
    ELSE IF t >= TimeOfDay(22, 0, 0) \/ t <= TimeOfDay(5, 0, 0) THEN "Low"
    ELSE "Medium"

SecondsPerDay == TimeOfDay(24, 0, 0)

IsStr(x) == x.k \in {"str", "tstr", "mdhms"}

map_traffic(x) ==
    IF IsStr(x)
    THEN IF strptime_ok(x)
         THEN TrafficBucket(TimeOfDay(x.v[3], x.v[4], x.v[5]))
         ELSE "Medium"
    ELSE IF x.k = "ts"
         THEN TrafficBucket(x.v % SecondsPerDay)
         ELSE "Medium"

(***************************************************************************)
(* Arguments handed to _map_traffic: timestamps at and next to the ends of *)
(* every window, strings in and out of the format, and non-time values.    *)
(***************************************************************************)
EdgeTimes ==
    {TimeOfDay(0, 0, 0), TimeOfDay(5, 0, 0), TimeOfDay(5, 0, 1),
     TimeOfDay(6, 59, 59), TimeOfDay(7, 0, 0), TimeOfDay(8, 30, 0),
     TimeOfDay(9, 0, 0), TimeOfDay(9, 0, 1), TimeOfDay(12, 0, 0),
     TimeOfDay(16, 59, 59), TimeOfDay(17, 0, 0), TimeOfDay(19, 0, 0),
     TimeOfDay(19, 0, 1), TimeOfDay(21, 59, 59), TimeOfDay(22, 0, 0),
     TimeOfDay(23, 59, 59)}

TrafficInputs ==
    {Ts(d * SecondsPerDay + t) : d \in {0, 1}, t \in EdgeTimes}
    \cup {MDHMS(mo, d, h, mi, s) :
            mo \in {1, 2, 4, 12}, d \in {1, 28, 29, 30, 31},
            h \in {0, 5, 7, 8, 9, 12, 17, 19, 21, 22}, mi \in {0, 59},
            s \in {0, 1, 59, 60}}
    \cup {NaT, None, NaN, Num(8), Str("8 am"), TStr(TimeOfDay(8, 0, 0))}

InitTraffic ==
    /\ time_val \in TrafficInputs
    /\ traffic_label = "unset"
    /\ LabelIdle
    /\ IngestIdle
    /\ AlignIdle

MapTraffic ==
    /\ traffic_label = "unset"
    /\ traffic_label' = map_traffic(time_val)
    /\ UNCHANGED <<labelVars, time_val, ingestVars, alignVars>>

NextTraffic == MapTraffic

SpecTraffic == InitTraffic /\ [][NextTraffic]_vars

(***************************************************************************)

(* Records handed to generate_label: every field is absent, None, NaN or  *)
(* one of the numbers on either side of the thresholds that read it.       *)
(***************************************************************************)
Absent == [k |-> "absent", v |-> 0]
Nulls  == {Absent, None, NaN}

RhVals     == Nulls \cup {Num(n) : n \in {0, 30, 40, 90, 91}}
CcLowVals  == Nulls \cup {Num(n) : n \in {0, 80, 81}}
CcTotVals  == Nulls \cup {Num(n) : n \in {0, 29, 30, 70, 71}}
WsVals     == Nulls \cup {Num(n) : n \in {0, 1, 2, 5, 6, 10, 11, 12, 13}}
PrecipVals == Nulls \cup {Num(n) : n \in {0, 1, 9, 10, 20, 21}}
IsDayVals  == Nulls \cup {Num(n) : n \in {0, 1}}

\* The record with the fields that are not Absent.
MkRow(f) == [c \in {d \in DOMAIN f : f[d] # Absent} |-> f[c]]

InitLabel ==
    /\ \E rh \in RhVals, cl \in CcLowVals, ct \in CcTotVals,
          ws \in WsVals, pr \in PrecipVals, dy \in IsDayVals :
          row = MkRow((RH :> rh) @@ (CC_LOW :> cl) @@ (CC_TOT :> ct) @@
                      (WS :> ws) @@ (PRECIP :> pr) @@ (IS_DAY :> dy))
    /\ label = "unset"
    /\ TrafficIdle
    /\ IngestIdle
    /\ AlignIdle

GenerateLabel ==
    /\ label = "unset"
    /\ label' = generate_label(row)
    /\ UNCHANGED <<row, trafficVars, ingestVars, alignVars>>

NextLabel == GenerateLabel

SpecLabel == InitLabel /\ [][NextLabel]_vars

(***************************************************************************)
(***************************************************************************)
(* DataFrames.  A table is [cols |-> the column names in order, rows |->   *)
(* the rows in order, each the cells in column order].  Column names may   *)
(* repeat (pandas allows it), so columns are addressed by position.        *)
(***************************************************************************)
EmptyTable == [cols |-> <<>>, rows |-> <<>>]

Range(s) == {s[j] : j \in DOMAIN s}

HasCol(t, name) == name \in Range(t.cols)

\* The position of the column called name (the first, should it repeat).
ColIndex(t, name) ==
    CHOOSE j \in DOMAIN t.cols :
        t.cols[j] = name /\ \A i \in 1..(j - 1) : t.cols[i] # name

\* isna()
IsNull(x) == x.k \in {"nat", "nan", "none"}

\* columns.str.strip().str.lower(), on the header spellings used here.
StripLower(name) ==
    CASE name = " Accept_Time " -> "accept_time"
      [] name = "Delivery_Time" -> "delivery_time"
      [] name = "Order_ID"      -> "order_id"
      [] name = " Timestamp "   -> "timestamp"
      [] name = "TIME"          -> "time"
      [] name = " Time_Weather" -> "time_weather"
      [] OTHER                  -> name

NormalizeColumns(t) ==
    [t EXCEPT !.cols = [j \in DOMAIN t.cols |-> StripLower(t.cols[j])]]

\* pd.to_datetime(x, errors="coerce") of one cell.
ToDatetime(x) ==
    CASE x.k = "tstr" -> Ts(x.v)
      [] x.k = "ts"   -> x
      [] OTHER        -> NaT

\* df[name] = pd.to_datetime(df[name], errors="coerce")
ConvertCol(t, name) ==
    [t EXCEPT !.rows =
        [i \in DOMAIN t.rows |->
            [j \in DOMAIN t.cols |->
                IF t.cols[j] = name THEN ToDatetime(t.rows[i][j])
                ELSE t.rows[i][j]]]]

\* df.dropna(subset=[name])
DropNa(t, name) ==
    LET j == ColIndex(t, name)
        keep(r) == ~IsNull(r[j])
    IN  [t EXCEPT !.rows = SelectSeq(t.rows, keep)]

\* sort_values(name): ascending, rows with equal keys keep their order (the
\* sort numpy runs on arrays this short is an insertion sort).
RECURSIVE InsertSorted(_, _, _)
InsertSorted(sorted, r, j) ==
    IF sorted = <<>> THEN <<r>>
    ELSE IF Head(sorted)[j].v <= r[j].v
         THEN <<Head(sorted)>> \o InsertSorted(Tail(sorted), r, j)
         ELSE <<r>> \o sorted

RECURSIVE SortRows(_, _)
SortRows(rows, j) ==
    IF rows = <<>> THEN <<>>
    ELSE InsertSorted(SortRows(SubSeq(rows, 1, Len(rows) - 1), j),
                      rows[Len(rows)], j)

SortValues(t, name) == [t EXCEPT !.rows = SortRows(t.rows, ColIndex(t, name))]

\* df.rename(columns={old: new})
Rename(t, old, new) ==
    [t EXCEPT !.cols =
        [j \in DOMAIN t.cols |-> IF t.cols[j] = old THEN new ELSE t.cols[j]]]

\* df[name] = vals: in place of the column(s) called name, else a new last
\* column.
SetCol(t, name, vals) ==
    IF HasCol(t, name)
    THEN [t EXCEPT !.rows =
            [i \in DOMAIN t.rows |->
                [j \in DOMAIN t.cols |->
                    IF t.cols[j] = name THEN vals[i] ELSE t.rows[i][j]]]]
    ELSE [cols |-> Append(t.cols, name),
          rows |-> [i \in DOMAIN t.rows |-> Append(t.rows[i], vals[i])]]

\* The names that head exactly one column.
UniqueCols(t) ==
    {t.cols[j] : j \in {a \in DOMAIN t.cols :
                          \A b \in DOMAIN t.cols : t.cols[b] = t.cols[a] => b = a}}

\* The row handed to apply(..., axis=1): the cells by column name, for the
\* names that occur once.
RowSeries(t, i) ==
    LET pos == [c \in UniqueCols(t) |-> ColIndex(t, c)]
    IN  [c \in DOMAIN pos |-> t.rows[i][pos[c]]]

(***************************************************************************)
(* pd.merge_asof(left, right, left_on, right_on, direction="backward"):    *)
(* both sorted by their key; one pass over the left keys with a position   *)
(* in the right keys that only moves forward.                              *)
(***************************************************************************)
\* Faulty variant: exact matches are not allowed.
RECURSIVE AsofAdvance_Strict(_, _, _)
AsofAdvance_Strict(rkeys, pos, lv) ==
    IF pos < Len(rkeys) /\ rkeys[pos + 1] < lv
    THEN AsofAdvance_Strict(rkeys, pos + 1, lv)
    ELSE pos

\* Move past every right key <= lv; pos is the number of right rows passed.
RECURSIVE AsofAdvance(_, _, _)
AsofAdvance(rkeys, pos, lv) ==
    IF pos < Len(rkeys) /\ rkeys[pos + 1] <= lv
    THEN AsofAdvance(rkeys, pos + 1, lv)
    ELSE pos

\* For each left row the matched right row (0: none).
RECURSIVE AsofScan(_, _, _, _, _)
AsofScan(lkeys, rkeys, li, pos, acc) ==
    IF li > Len(lkeys) THEN acc
    ELSE LET p == AsofAdvance(rkeys, pos, lkeys[li])
         IN  AsofScan(lkeys, rkeys, li + 1, p, Append(acc, p))

\* A column of both sides gets the suffix _x on the left and _y on the right.
Suffixed(cols, others, suffix) ==
    [j \in DOMAIN cols |->
        IF cols[j] \in Range(others) THEN cols[j] \o suffix ELSE cols[j]]

MergeAsof(left, right, left_on, right_on) ==
    LET lj == ColIndex(left, left_on)
        rj == ColIndex(right, right_on)
        lkeys == [i \in DOMAIN left.rows |-> left.rows[i][lj].v]
        rkeys == [i \in DOMAIN right.rows |-> right.rows[i][rj].v]
        match == AsofScan(lkeys, rkeys, 1, 0, <<>>)
        \* an unmatched row: NaT in the datetime column, NaN elsewhere
        nulls == [j \in DOMAIN right.cols |-> IF j = rj THEN NaT ELSE NaN]
    IN  [cols |-> Suffixed(left.cols, right.cols, "_x")
                    \o Suffixed(right.cols, left.cols, "_y"),
         rows |-> [i \in DOMAIN left.rows |->
                     left.rows[i] \o
                     (IF match[i] = 0 THEN nulls ELSE right.rows[match[i]])]]

(***************************************************************************)
(* DataIngest.                                                             *)
(***************************************************************************)
time_candidates ==
    <<"time_weather", "timestamp", "datetime", "time", "weather_time">>

\* Faulty variant: the first column of the file that is a candidate.
RECURSIVE FirstCandidate_FileOrder(_, _)
FirstCandidate_FileOrder(cands, cols) ==
    IF cols = <<>> THEN ""
    ELSE IF Head(cols) \in Range(cands) THEN Head(cols)
         ELSE FirstCandidate_FileOrder(cands, Tail(cols))

\* next((c for c in time_candidates if c in columns), None); "" stands for
\* None.
RECURSIVE FirstCandidate(_, _)
FirstCandidate(cands, cols) ==
    IF cands = <<>> THEN ""
    ELSE IF Head(cands) \in Range(cols) THEN Head(cands)
         ELSE FirstCandidate(Tail(cands), cols)

NewObj == [delivery_df |-> 0, weather_df |-> 0, weather_time_col |-> ""]

\* The object and the heap load_data leaves, and the exception it raised.
load_data(f) ==
    IF ~f.delivery.exists \/ ~f.weather.exists
    THEN [err |-> "FileNotFoundError", heap |-> <<>>, obj |-> NewObj]
    ELSE
      LET d0 == NormalizeColumns([cols |-> f.delivery.cols,
                                  rows |-> f.delivery.rows])
          w0 == NormalizeColumns([cols |-> f.weather.cols,
                                  rows |-> f.weather.rows])
          loaded == [NewObj EXCEPT !.delivery_df = 1, !.weather_df = 2]
      IN
      IF ~HasCol(d0, "accept_time")
      THEN [err |-> "KeyError", heap |-> <<d0, w0>>, obj |-> loaded]
      ELSE
        LET d1 == ConvertCol(d0, "accept_time")
            d2 == IF HasCol(d1, "delivery_time")
                  THEN ConvertCol(d1, "delivery_time") ELSE d1
            weather_time_col == FirstCandidate(time_candidates, w0.cols)
        IN
        IF weather_time_col = ""
        THEN [err |-> "KeyError", heap |-> <<d2, w0>>, obj |-> loaded]
        ELSE [err |-> "none",
              heap |-> <<d2, ConvertCol(w0, weather_time_col)>>,
              obj |-> [loaded EXCEPT !.weather_time_col = weather_time_col]]

\* What enrich_with_weather leaves: the exception raised, or the new heap,
\* the object and the id of the table returned.
enrich_with_weather(h, o) ==
    LET delivery_clean ==
            SortValues(DropNa(h[o.delivery_df], "accept_time"), "accept_time")
        weather_clean ==
            SortValues(DropNa(h[o.weather_df], o.weather_time_col),
                       o.weather_time_col)
        merged0 == MergeAsof(delivery_clean, weather_clean,
                             "accept_time", o.weather_time_col)
        merged == IF o.weather_time_col # "time_weather"
                  THEN Rename(merged0, o.weather_time_col, "time_weather")
                  ELSE merged0
        labels == [i \in DOMAIN merged.rows |->
                      generate_label(RowSeries(merged, i))]
    IN
    IF ~HasCol(merged, "time_weather")
    THEN [err |-> "KeyError", heap |-> h, obj |-> o, ret |-> 0]
    ELSE IF \E i \in DOMAIN labels : labels[i] = "TypeError"
    THEN [err |-> "TypeError", heap |-> h, obj |-> o, ret |-> 0]
    ELSE [err |-> "none",
          heap |-> Append(h, SetCol(merged, "Weather_Label",
                                    [i \in DOMAIN labels |-> Str(labels[i])])),
          obj |-> [o EXCEPT !.delivery_df = Len(h) + 1],
          ret |-> Len(h) + 1]

\* TrafficMockGenerator.generate(df): the table is changed in place and
\* returned.
generate(h, id) ==
    IF ~HasCol(h[id], "delivery_time")
    THEN [err |-> "KeyError", heap |-> h, ret |-> 0]
    ELSE LET j == ColIndex(h[id], "delivery_time")
             labels == [i \in DOMAIN h[id].rows |->
                           Str(map_traffic(h[id].rows[i][j]))]
         IN  [err |-> "none",
              heap |-> [h EXCEPT ![id] = SetCol(h[id], "Traffic_Label", labels)],
              ret |-> id]

enrich_with_traffic_and_vehicles(h, o) ==
    LET g == generate(h, o.delivery_df)
    IN  [err |-> g.err, heap |-> g.heap,
         obj |-> [o EXCEPT !.delivery_df =
                     IF g.err = "none" THEN g.ret ELSE o.delivery_df],
         ret |-> g.ret]

(***************************************************************************)

(***************************************************************************)
(* The files a DataIngest is built from.  Two families: headers of every   *)
(* shape over two fixed rows each, and rows of every shape under the plain *)
(* headers.  Within a file the normalized column names are distinct, and   *)
(* the two files share no column name.                                     *)
(***************************************************************************)
MaxRows == 2

BadCell == Str("n/a")

Times == {TimeOfDay(0, 0, 0), TimeOfDay(1, 0, 0), TimeOfDay(2, 0, 0)}

\* Cells of accept_time, and of the weather timestamp column.
TimeCells == {BadCell} \cup {TStr(t) : t \in Times}
WeatherTimeCells == TimeCells \ {TStr(TimeOfDay(1, 0, 0))}

BoundedSeq(S, n) == UNION {[1..m -> S] : m \in 0..n}

\* The measurements the weather file holds beside a timestamp cell.
Measures(rh, cl, ct, ws, pr, dy) ==
    (RH :> Num(rh)) @@ (CC_LOW :> Num(cl)) @@ (CC_TOT :> Num(ct)) @@
    (WS :> Num(ws)) @@ (PRECIP :> Num(pr)) @@ (IS_DAY :> Num(dy))

MeasuresAt(w) ==
    CASE w = TStr(TimeOfDay(0, 0, 0)) -> Measures(50, 10, 50, 8, 0, 1)
      [] w = TStr(TimeOfDay(2, 0, 0)) -> Measures(95, 90, 90, 1, 0, 0)
      [] OTHER                        -> Measures(60, 50, 90, 20, 30, 0)

MeasureHeader == <<RH, CC_LOW, CC_TOT, WS, PRECIP, IS_DAY>>

WeatherFile(timeCols, cells) ==
    LET cols == timeCols \o MeasureHeader
    IN  [exists |-> TRUE, cols |-> cols,
         rows |-> [i \in DOMAIN cells |->
                     [j \in DOMAIN cols |->
                         IF cols[j] \in MeasureCols
                         THEN MeasuresAt(cells[i])[cols[j]]
                         ELSE cells[i]]]]

\* A delivery is completed six hours after it is accepted.
DeliveredCell(a) ==
    IF a.k = "tstr" THEN TStr(a.v + TimeOfDay(6, 0, 0)) ELSE BadCell

DeliveryFile(cols, cells) ==
    [exists |-> TRUE, cols |-> cols,
     rows |-> [i \in DOMAIN cells |->
                 [j \in DOMAIN cols |->
                     CASE StripLower(cols[j]) = "accept_time" -> cells[i]
                       [] StripLower(cols[j]) = "delivery_time" ->
                            DeliveredCell(cells[i])
                       [] OTHER -> Num(100 + i)]]]

MissingFile == [exists |-> FALSE, cols |-> <<>>, rows |-> <<>>]

DeliveryHeaders ==
    {<<"order_id", "accept_time", "delivery_time">>,
     <<"Order_ID", " Accept_Time ", "Delivery_Time">>,
     <<"order_id", "accept_time">>,
     <<"order_id", "delivery_time">>}

WeatherTimeHeaders ==
    {<<"time">>, <<"time_weather">>, <<" Timestamp ">>,
     <<"time", "timestamp">>, <<"weather_time", "datetime">>,
     <<"TIME", " Time_Weather">>, <<"date">>, <<>>}

HeaderScenarios ==
    {[delivery |-> d, weather |-> w] :
        d \in {MissingFile} \cup
              {DeliveryFile(h, <<TStr(TimeOfDay(1, 0, 0)), BadCell>>) :
                  h \in DeliveryHeaders},
        w \in {MissingFile} \cup
              {WeatherFile(h, <<TStr(TimeOfDay(2, 0, 0)),
                                TStr(TimeOfDay(0, 0, 0))>>) :
                  h \in WeatherTimeHeaders}}

RowScenarios ==
    {[delivery |-> DeliveryFile(<<"order_id", "accept_time",
                                  "delivery_time">>, a),
      weather |-> WeatherFile(<<"time">>, w)] :
        a \in BoundedSeq(TimeCells, MaxRows),
        w \in BoundedSeq(WeatherTimeCells, MaxRows)}

Init ==
    /\ fs \in HeaderScenarios \cup RowScenarios
    /\ heap = <<>>
    /\ obj = NewObj
    /\ pc = "new"
    /\ calls = <<>>
    /\ LabelIdle
    /\ TrafficIdle
    /\ AlignIdle

\* A call of one method, as the caller sees it: the exception raised, or
\* the id of the table returned and the table as it was on return.
Call(op, r) ==
    [op |-> op, err |-> r.err, ret |-> r.ret,
     out |-> IF r.err = "none" THEN r.heap[r.ret] ELSE EmptyTable]

CallsOf(op) == LET is(c) == c.op = op IN Len(SelectSeq(calls, is))

\* DataIngest(delivery_file, weather_file)
Construct ==
    /\ pc = "new"
    /\ LET r == load_data(fs)
       IN  /\ heap' = r.heap
           /\ obj' = r.obj
           /\ pc' = IF r.err = "none" THEN "ready" ELSE "failed"
           /\ calls' = Append(calls, [op |-> "load_data", err |-> r.err,
                                      ret |-> 0, out |-> EmptyTable])
    /\ UNCHANGED <<fs, labelVars, trafficVars, alignVars>>

\* loader.enrich_with_weather(); a method is called at most twice.
EnrichWithWeather ==
    /\ pc = "ready"
    /\ CallsOf("enrich_with_weather") < 2
    /\ LET r == enrich_with_weather(heap, obj)
       IN  /\ heap' = r.heap
           /\ obj' = r.obj
           /\ pc' = IF r.err = "none" THEN "ready" ELSE "failed"
           /\ calls' = Append(calls, Call("enrich_with_weather", r))
    /\ UNCHANGED <<fs, labelVars, trafficVars, alignVars>>

\* loader.enrich_with_traffic_and_vehicles()
EnrichWithTraffic ==
    /\ pc = "ready"
    /\ CallsOf("enrich_with_traffic_and_vehicles") < 2
    /\ LET r == enrich_with_traffic_and_vehicles(heap, obj)
       IN  /\ heap' = r.heap
           /\ obj' = r.obj
           /\ pc' = IF r.err = "none" THEN "ready" ELSE "failed"
           /\ calls' = Append(calls,
                              Call("enrich_with_traffic_and_vehicles", r))
    /\ UNCHANGED <<fs, labelVars, trafficVars, alignVars>>

Next == Construct \/ EnrichWithWeather \/ EnrichWithTraffic

Spec == Init /\ [][Next]_vars

(***************************************************************************)

(***************************************************************************)
(* DataAligner.  Its tables also carry their index: [cols, index, rows].   *)
(* A date string is [k |-> "dstr", v |-> day], a time-of-day string        *)
(* [k |-> "todstr", v |-> second of the day], a datetime.date              *)
(* [k |-> "date", v |-> day], a Timedelta [k |-> "td", v |-> seconds] and  *)
(* the float n/d [k |-> "frac", v |-> <<n, d>>].                           *)
(***************************************************************************)
DStr(d)    == [k |-> "dstr", v |-> d]
TodStr(t)  == [k |-> "todstr", v |-> t]
Date(d)    == [k |-> "date", v |-> d]
Td(sec)    == [k |-> "td", v |-> sec]
Frac(n, d) == [k |-> "frac", v |-> <<n, d>>]

EmptyFrame == [cols |-> <<>>, index |-> <<>>, rows |-> <<>>]

\* df.empty
IsEmpty(t) == t.rows = <<>> \/ t.cols = <<>>

\* The column df[name], by row.
Column(t, name) ==
    LET j == ColIndex(t, name) IN [i \in DOMAIN t.rows |-> t.rows[i][j]]

\* df.get(name, None): the column, or None for every row.
ColumnOrNone(t, name) ==
    IF HasCol(t, name) THEN Column(t, name)
    ELSE [i \in DOMAIN t.rows |-> None]

\* a.fillna(b) of one cell.
FillNa(x, y) == IF IsNull(x) THEN y ELSE x

\* .dt.date of one cell.
DtDate(x) == IF x.k = "ts" THEN Date(x.v \div SecondsPerDay) ELSE NaT

\* Faulty variant: the difference in seconds, not divided by 60.
EtaMinutes_NotDivided(delivery, pickup) ==
    IF delivery.k = "ts" /\ pickup.k = "ts"
    THEN Frac(delivery.v - pickup.v, 1)
    ELSE NaN

\* (delivery - pickup).dt.total_seconds() / 60 of one row.
EtaMinutes(delivery, pickup) ==
    IF delivery.k = "ts" /\ pickup.k = "ts"
    THEN Frac(delivery.v - pickup.v, 60)
    ELSE NaN

\* pd.to_datetime(date.astype(str) + " " + time, errors="coerce") of one
\* row: a date string and a time-of-day string parse, anything else ("nan",
\* a malformed time) does not.
CombineDateTime(date, time) ==
    IF date.k = "dstr" /\ time.k = "todstr"
    THEN Ts(date.v * SecondsPerDay + time.v)
    ELSE NaT

\* pd.to_timedelta(x, unit="m") of one cell.
ToTimedeltaMinutes(x) == IF x.k = "num" THEN Td(x.v * 60) ELSE NaT

\* Timestamp + Timedelta of one row.
AddTimedelta(x, d) ==
    IF x.k = "ts" /\ d.k = "td" THEN Ts(x.v + d.v) ELSE NaT

DeliveryRequired ==
    {"accept_time", "delivery_time", "order_id", "accept_gps_lat", "lat",
     "accept_gps_lng", "lng", "delivery_gps_lat", "delivery_gps_lng"}

CanonicalDelivery ==
    <<"order_id", "Date", "pickup_time", "delivery_time", "pickup_lat",
      "pickup_lng", "drop_lat", "drop_lng", "weather", "traffic",
      "ETA_target">>

\* What transform_delivery_dataset returns, or the exception it raises.
transform_delivery_dataset(enriched_df) ==
    IF IsEmpty(enriched_df) THEN [err |-> "none", out |-> EmptyFrame]
    ELSE IF \E c \in DeliveryRequired : ~HasCol(enriched_df, c)
    THEN [err |-> "KeyError", out |-> EmptyFrame]
    ELSE
      LET df1 == ConvertCol(ConvertCol(enriched_df, "accept_time"),
                            "delivery_time")
          pickup == Column(df1, "accept_time")
          delivery == Column(df1, "delivery_time")
          weather == ColumnOrNone(df1, "Weather_Label")
          traffic == ColumnOrNone(df1, "Traffic_Label")
      IN  [err |-> "none",
           out |-> [cols |-> CanonicalDelivery,
                    index |-> df1.index,
                    rows |-> [i \in DOMAIN df1.rows |->
                       << Column(df1, "order_id")[i],
                          DtDate(pickup[i]),
                          pickup[i],
                          delivery[i],
                          FillNa(Column(df1, "accept_gps_lat")[i],
                                 Column(df1, "lat")[i]),
                          FillNa(Column(df1, "accept_gps_lng")[i],
                                 Column(df1, "lng")[i]),
                          Column(df1, "delivery_gps_lat")[i],
                          Column(df1, "delivery_gps_lng")[i],
                          weather[i],
                          traffic[i],
                          EtaMinutes(delivery[i], pickup[i]) >>]]]

AmazonRequired ==
    {"Order_Date", "Order_Time", "Delivery_Time", "Order_ID",
     "Store_Latitude", "Store_Longitude", "Drop_Latitude", "Drop_Longitude",
     "Traffic"}

CanonicalAmazon ==
    <<"order_id", "Date", "pickup_time", "delivery_time", "pickup_lat",
      "pickup_lng", "drop_lat", "drop_lng", "traffic", "weather",
      "ETA_target">>

\* What transform_amazon_dataset returns, or the exception it raises.
transform_amazon_dataset(amazon_df) ==
    IF IsEmpty(amazon_df) THEN [err |-> "none", out |-> EmptyFrame]
    ELSE IF \E c \in AmazonRequired : ~HasCol(amazon_df, c)
    THEN [err |-> "KeyError", out |-> EmptyFrame]
    ELSE
      LET df2 == amazon_df
          pickup == [i \in DOMAIN df2.rows |->
                       CombineDateTime(
                           Column(df2, "Order_Date")[i],
                           FillNa(Column(df2, "Order_Time")[i], TodStr(0)))]
          delivery == [i \in DOMAIN df2.rows |->
                         AddTimedelta(
                             pickup[i],
                             ToTimedeltaMinutes(
                                 Column(df2, "Delivery_Time")[i]))]
      IN  [err |-> "none",
           out |-> [cols |-> CanonicalAmazon,
                    index |-> df2.index,
                    rows |-> [i \in DOMAIN df2.rows |->
                       << Column(df2, "Order_ID")[i],
                          Column(df2, "Order_Date")[i],
                          pickup[i],
                          delivery[i],
                          Column(df2, "Store_Latitude")[i],
                          Column(df2, "Store_Longitude")[i],
                          Column(df2, "Drop_Latitude")[i],
                          Column(df2, "Drop_Longitude")[i],
                          Column(df2, "Traffic")[i],
                          None,
                          EtaMinutes(delivery[i], pickup[i]) >>]]]

\* The columns of b that a lacks, in b's order.
ExtraCols(a, b) == LET new(c) == c \notin Range(a) IN SelectSeq(b, new)

\* The rows of t laid out under the columns cols, NaN where t has none.
Reindexed(t, cols) ==
    [i \in DOMAIN t.rows |->
        [j \in DOMAIN cols |->
            IF HasCol(t, cols[j]) THEN t.rows[i][ColIndex(t, cols[j])]
            ELSE NaN]]

\* Faulty variant: the two indexes are kept.
Concat_KeepIndex(df1, df2) ==
    LET cols == df1.cols \o ExtraCols(df1.cols, df2.cols)
    IN  [cols |-> cols,
         index |-> df1.index \o df2.index,
         rows |-> Reindexed(df1, cols) \o Reindexed(df2, cols)]

\* pd.concat([df1, df2], ignore_index=True)
Concat(df1, df2) ==
    LET cols == df1.cols \o ExtraCols(df1.cols, df2.cols)
        rows == Reindexed(df1, cols) \o Reindexed(df2, cols)
    IN  [cols |-> cols,
         index |-> [i \in DOMAIN rows |-> i - 1],
         rows |-> rows]

\* What align returns, or the exception it raises.
align(a) ==
    LET r1 == transform_delivery_dataset(a.enriched_df)
        r2 == transform_amazon_dataset(a.amazon_df)
        df1 == r1.out
        df2 == r2.out
    IN  IF r1.err # "none" THEN r1
        ELSE IF r2.err # "none" THEN r2
        ELSE IF IsEmpty(df1) /\ IsEmpty(df2)
             THEN [err |-> "none", out |-> EmptyFrame]
        ELSE IF IsEmpty(df1) THEN [err |-> "none", out |-> df2]
        ELSE IF IsEmpty(df2) THEN [err |-> "none", out |-> df1]
        ELSE [err |-> "none", out |-> Concat(df1, df2)]

(***************************************************************************)
(* The tables a DataAligner is built from.                                 *)
(***************************************************************************)
MaxAlignRows == 2

At(day, h, mi) == day * SecondsPerDay + TimeOfDay(h, mi, 0)

\* An enriched delivery row, by kind:
\*   1  strings, accept-GPS present, a stale ETA_target of 99
\*   2  Timestamps, delivered before accepted, accept-GPS missing
\*   3  an accept_time that does not parse
EnrichedCell(kind, c) ==
    CASE c = "order_id" -> Num(kind)
      [] c = "accept_time" ->
           (CASE kind = 1 -> TStr(At(0, 8, 0))
              [] kind = 2 -> Ts(At(1, 10, 0))
              [] OTHER    -> BadCell)
      [] c = "delivery_time" ->
           (CASE kind = 1 -> TStr(At(0, 8, 45))
              [] kind = 2 -> Ts(At(1, 9, 30))
              [] OTHER    -> TStr(At(0, 9, 0)))
      [] c \in {"accept_gps_lat", "accept_gps_lng"} ->
           (IF kind = 2 THEN NaN ELSE Num(30 + kind))
      [] c \in {"lat", "lng"} -> Num(40 + kind)
      [] c \in {"delivery_gps_lat", "delivery_gps_lng"} -> Num(50 + kind)
      [] c = "Weather_Label" -> Str("Windy")
      [] c = "Traffic_Label" -> Str("High")
      [] c = "ETA_target" -> Num(99)
      [] OTHER -> NaN

EnrichedHeaders ==
    {<<"order_id", "accept_time", "delivery_time", "accept_gps_lat",
       "accept_gps_lng", "lat", "lng", "delivery_gps_lat",
       "delivery_gps_lng", "Weather_Label", "Traffic_Label", "ETA_target">>,
     <<"order_id", "accept_time", "delivery_time", "accept_gps_lat",
       "accept_gps_lng", "lat", "lng", "delivery_gps_lat",
       "delivery_gps_lng">>,
     <<"order_id", "accept_time", "accept_gps_lat", "accept_gps_lng", "lat",
       "lng", "delivery_gps_lat", "delivery_gps_lng", "Weather_Label">>}

\* An external-provider row, by kind:
\*   1  Order_Date "day 1", Order_Time "10:00:00", Delivery_Time 45
\*   2  Order_Time missing, Delivery_Time 30
\*   3  Order_Time malformed
\*   4  Delivery_Time missing
AmazonCell(kind, c) ==
    CASE c = "Order_ID" -> Num(kind)
      [] c = "Order_Date" -> DStr(1)
      [] c = "Order_Time" ->
           (CASE kind = 1 -> TodStr(TimeOfDay(10, 0, 0))
              [] kind = 2 -> NaN
              [] OTHER    -> Str("NaN "))
      [] c = "Delivery_Time" ->
           (CASE kind = 1 -> Num(45)
              [] kind = 4 -> NaN
              [] OTHER    -> Num(30))
      [] c = "Traffic" -> Str("Low ")
      [] OTHER -> Num(60 + kind)

AmazonHeader ==
    <<"Order_ID", "Order_Date", "Order_Time", "Delivery_Time",
      "Store_Latitude", "Store_Longitude", "Drop_Latitude", "Drop_Longitude",
      "Traffic">>

\* The enriched table of the given kinds of rows; its index starts at first.
EnrichedFrame(cols, kinds, first) ==
    [cols |-> cols,
     index |-> [i \in DOMAIN kinds |-> first + i - 1],
     rows |-> [i \in DOMAIN kinds |->
                 [j \in DOMAIN cols |-> EnrichedCell(kinds[i], cols[j])]]]

\* The external provider's table of the given kinds of rows.
AmazonFrame(kinds) ==
    [cols |-> AmazonHeader,
     index |-> [i \in DOMAIN kinds |-> i - 1],
     rows |-> [i \in DOMAIN kinds |->
                 [j \in DOMAIN AmazonHeader |->
                     AmazonCell(kinds[i], AmazonHeader[j])]]]

InitAlign ==
    /\ \E h \in EnrichedHeaders, first \in {0, 5},
          ek \in BoundedSeq(1..3, MaxAlignRows),
          ak \in BoundedSeq(1..4, MaxAlignRows) :
          aligner = [enriched_df |-> EnrichedFrame(h, ek, first),
                     amazon_df |-> AmazonFrame(ak)]
    /\ last = [op |-> "none", err |-> "none", out |-> EmptyFrame]
    /\ LabelIdle
    /\ TrafficIdle
    /\ IngestIdle

Returned(op, r) == [op |-> op, err |-> r.err, out |-> r.out]

TransformDelivery ==
    /\ last' = Returned("transform_delivery_dataset",
                        transform_delivery_dataset(aligner.enriched_df))
    /\ UNCHANGED <<aligner, labelVars, trafficVars, ingestVars>>

TransformAmazon ==
    /\ last' = Returned("transform_amazon_dataset",
                        transform_amazon_dataset(aligner.amazon_df))
    /\ UNCHANGED <<aligner, labelVars, trafficVars, ingestVars>>

Align ==
    /\ last' = Returned("align", align(aligner))
    /\ UNCHANGED <<aligner, labelVars, trafficVars, ingestVars>>

NextAlign == TransformDelivery \/ TransformAmazon \/ Align

SpecAlign == InitAlign /\ [][NextAlign]_vars

(***************************************************************************)

(* The rules as the specification words them, on the numbers of a record:  *)
(* a rule's condition holds when every field it reads is a number and the  *)
(* numbers meet the thresholds.                                            *)
(***************************************************************************)
HasNum(r, c) == c \in DOMAIN r /\ r[c].k = "num"

FogCond(r) ==
    /\ HasNum(r, RH) /\ HasNum(r, CC_LOW) /\ HasNum(r, WS)
    /\ r[RH].v > 90 /\ r[CC_LOW].v > 80 /\ r[WS].v < 2
StormyCond(r) ==
    /\ HasNum(r, WS) /\ HasNum(r, PRECIP)
    /\ r[WS].v > 12 /\ r[PRECIP].v > 20
SandstormCond(r) ==
    /\ HasNum(r, WS) /\ HasNum(r, PRECIP) /\ HasNum(r, RH)
    /\ r[WS].v > 10 /\ r[PRECIP].v < 1 /\ r[RH].v < 40
WindyCond(r) ==
    /\ HasNum(r, WS) /\ HasNum(r, PRECIP)
    /\ 6 <= r[WS].v /\ r[WS].v <= 12 /\ r[PRECIP].v < 10
CloudyCond(r) ==
    /\ HasNum(r, CC_TOT) /\ HasNum(r, PRECIP)
    /\ r[CC_TOT].v > 70 /\ r[PRECIP].v < 10
SunnyCond(r) ==
    /\ HasNum(r, CC_TOT) /\ HasNum(r, IS_DAY)
    /\ r[CC_TOT].v < 30 /\ r[IS_DAY].v = 1

\* The first rule, in the stated order, whose condition holds; 0 when none.
FirstRule(r) ==
    IF FogCond(r) THEN 1
    ELSE IF StormyCond(r) THEN 2
    ELSE IF SandstormCond(r) THEN 3
    ELSE IF WindyCond(r) THEN 4
    ELSE IF CloudyCond(r) THEN 5
    ELSE IF SunnyCond(r) THEN 6
    ELSE 0

\* The label each rule of the source returns.
RuleLabel == <<"Fog", "Stormy", "Sandstorms", "Windy", "Cloudy", "Sunny">>

Labelled == label # "unset"

(***************************************************************************)
(* C2: the rules are tried in the order Fog, Stormy, Sandstorm, Windy,     *)
(* Cloudy, Sunny and the first whose condition holds decides the label: a  *)
(* later rule never decides when an earlier condition holds, a label of    *)
(* the first four rules is only given when that rule is the first to hold, *)
(* the thresholds are strict (no Fog unless humidity > 90, low cloud > 80, *)
(* wind < 2), and a record with an is_day field that meets no condition    *)
(* gets the default Cloudy.                                                *)
(***************************************************************************)
C2_FirstMatchingRuleDecides ==
    Labelled =>
      /\ FirstRule(row) # 0 => label = RuleLabel[FirstRule(row)]
      /\ \A i \in 1..4 : label = RuleLabel[i] => FirstRule(row) = i
      /\ (FirstRule(row) = 0 /\ IS_DAY \in DOMAIN row) => label = "Cloudy"
      /\ (HasNum(row, RH) /\ row[RH].v = 90) => label # "Fog"
      /\ (HasNum(row, CC_LOW) /\ row[CC_LOW].v = 80) => label # "Fog"
      /\ (HasNum(row, WS) /\ row[WS].v = 2) => label # "Fog"

\* A record that meets the Sandstorm and the Windy condition, decided by the
\* Sandstorm rule.
C2_Witness ==
    /\ Labelled
    /\ SandstormCond(row) /\ WindyCond(row)
    /\ label = RuleLabel[3]

(***************************************************************************)
(* C3 as stated: generate_label returns, for every combination of present, *)
(* absent and null fields, a label in {Fog, Stormy, Sandstorm, Windy,      *)
(* Cloudy, Sunny} and does not raise.                                      *)
(***************************************************************************)
C3_Original ==
    Labelled =>
      label \in {"Fog", "Stormy", "Sandstorm", "Windy", "Cloudy", "Sunny"}

(***************************************************************************)
(* C3 amended: generate_label never raises and returns exactly one label   *)
(* of {Fog, Stormy, Sandstorms, Windy, Cloudy, Sunny}: the third rule's    *)
(* label is spelled "Sandstorms".                                          *)
(***************************************************************************)
C3_TotalOverSourceLabels ==
    Labelled =>
      /\ label # "TypeError"
      /\ label \in {RuleLabel[i] : i \in 1..6}

\* A record mixing an absent, a None and a NaN field has been labelled.
C3_Witness ==
    /\ Labelled
    /\ RH \notin DOMAIN row
    /\ WS \in DOMAIN row /\ row[WS] = None
    /\ PRECIP \in DOMAIN row /\ row[PRECIP] = NaN
    /\ CC_TOT \in DOMAIN row /\ row[CC_TOT] = Num(0)
    /\ label = "Sunny"

(***************************************************************************)
(* C10.  The fields each labelled rule reads, and the label a record gets  *)
(* when absent fields make rules not applicable and numbers (0 included)   *)
(* are compared as numbers.                                                *)
(***************************************************************************)
RefLabel(r) == IF FirstRule(r) = 0 THEN "Cloudy" ELSE RuleLabel[FirstRule(r)]

\* r, with is_day = 1 when r has no is_day field.
WithIsDayDefault(r) ==
    IF IS_DAY \in DOMAIN r THEN r ELSE r @@ (IS_DAY :> Num(1))

\* C10 as stated: a rule with an absent field never decides the label (no
\* Sunny without is_day), all fields absent gives Cloudy, and a present 0 is
\* compared as the number 0.
C10_Original ==
    Labelled =>
      /\ label = "Fog" => {RH, CC_LOW, WS} \subseteq DOMAIN row
      /\ label = "Stormy" => {WS, PRECIP} \subseteq DOMAIN row
      /\ label = "Sandstorms" => {WS, PRECIP, RH} \subseteq DOMAIN row
      /\ label = "Windy" => {WS, PRECIP} \subseteq DOMAIN row
      /\ label = "Sunny" => {CC_TOT, IS_DAY} \subseteq DOMAIN row
      /\ DOMAIN row = {} => label = "Cloudy"
      /\ label = RefLabel(row)

\* C10 amended: an absent humidity, low cloud, total cloud, wind speed or
\* precipitation makes every rule that reads it not applicable and is never
\* replaced by a number; an absent is_day is read as 1 (day), so the Sunny
\* rule still applies to a record without is_day; all fields absent gives
\* Cloudy; a present 0 is compared as the number 0.
C10_AbsentSkipsRuleButIsDayDefaultsToOne ==
    Labelled =>
      /\ label = "Fog" => {RH, CC_LOW, WS} \subseteq DOMAIN row
      /\ label = "Stormy" => {WS, PRECIP} \subseteq DOMAIN row
      /\ label = "Sandstorms" => {WS, PRECIP, RH} \subseteq DOMAIN row
      /\ label = "Windy" => {WS, PRECIP} \subseteq DOMAIN row
      /\ label = "Sunny" => CC_TOT \in DOMAIN row
      /\ DOMAIN row = {} => label = "Cloudy"
      /\ label = RefLabel(WithIsDayDefault(row))

\* A record without is_day and with total cloud cover 0 is labelled Sunny.
C10_Witness ==
    /\ Labelled
    /\ IS_DAY \notin DOMAIN row
    /\ HasNum(row, CC_TOT) /\ row[CC_TOT].v = 0
    /\ HasNum(row, WS) /\ row[WS].v = 0
    /\ label = "Sunny"

(***************************************************************************)
(* C4.  The windows as the claim words them, on hour, minute and second.   *)
(***************************************************************************)
ClaimedTraffic(h, mi, s) ==
    IF h \in {7, 8} \/ (h = 9 /\ mi = 0 /\ s = 0) THEN "High"
    ELSE IF h \in {17, 18} \/ (h = 19 /\ mi = 0 /\ s = 0) THEN "Jam"
    ELSE IF h >= 22 \/ h < 5 \/ (h = 5 /\ mi = 0 /\ s = 0) THEN "Low"
    ELSE "Medium"

\* A string in the pattern MM-DD HH:MM:SS: a day of the calendar (29
\* February included) and a time of day.
DaysInMonth == <<31, 29, 31, 30, 31, 30, 31, 31, 30, 31, 30, 31>>
InPattern(x) ==
    /\ x.k = "mdhms"
    /\ x.v[2] <= DaysInMonth[x.v[1]]
    /\ x.v[5] <= 59

Mapped == traffic_label # "unset"

\* C4 as stated: _map_traffic returns one of {Low, Medium, High, Jam}; a
\* timestamp and a string in the pattern MM-DD HH:MM:SS get the label of
\* their time of day (both ends of each window inclusive), and every other
\* input gets Medium.
C4_Original ==
    Mapped =>
      /\ traffic_label \in {"Low", "Medium", "High", "Jam"}
      /\ time_val.k = "ts" =>
           LET t == time_val.v % SecondsPerDay
           IN  traffic_label =
                 ClaimedTraffic(t \div 3600, (t \div 60) % 60, t % 60)
      /\ InPattern(time_val) =>
           traffic_label =
             ClaimedTraffic(time_val.v[3], time_val.v[4], time_val.v[5])
      /\ (time_val.k # "ts" /\ ~InPattern(time_val)) =>
           traffic_label = "Medium"

\* What does hold: the same statement with the strings limited to those
\* whose day exists in 1900 (no 29 February).
TrafficLabelOnParsedInputs ==
    Mapped =>
      /\ traffic_label \in {"Low", "Medium", "High", "Jam"}
      /\ time_val.k = "ts" =>
           LET t == time_val.v % SecondsPerDay
           IN  traffic_label =
                 ClaimedTraffic(t \div 3600, (t \div 60) % 60, t % 60)
      /\ (InPattern(time_val) /\ ~(time_val.v[1] = 2 /\ time_val.v[2] = 29)) =>
           traffic_label =
             ClaimedTraffic(time_val.v[3], time_val.v[4], time_val.v[5])
      /\ (time_val.k # "ts" /\ ~InPattern(time_val)) =>
           traffic_label = "Medium"

(***************************************************************************)
(* DataIngest: what the claims say, read off the two files.                *)
(***************************************************************************)
\* The trimmed, lower-cased column names of a file.
NormalizedNames(file) == {StripLower(file.cols[j]) : j \in DOMAIN file.cols}

ClaimedPriority ==
    <<"time_weather", "timestamp", "datetime", "time", "weather_time">>

\* The outcome the claim gives the constructor: FileNotFoundError is the
\* source's SourceNotFoundError, KeyError its SchemaError.
ClaimedLoadError ==
    IF ~fs.delivery.exists \/ ~fs.weather.exists THEN "FileNotFoundError"
    ELSE IF "accept_time" \notin NormalizedNames(fs.delivery) THEN "KeyError"
    ELSE IF \A k \in DOMAIN ClaimedPriority :
                ClaimedPriority[k] \notin NormalizedNames(fs.weather)
         THEN "KeyError"
    ELSE "none"

(***************************************************************************)
(* C7: constructing DataIngest fails exactly when a file is missing        *)
(* (FileNotFoundError), the delivery header has no accept_time after       *)
(* normalization (KeyError) or the weather header has no candidate         *)
(* (KeyError); otherwise the resolved weather timestamp column is the      *)
(* first name of the priority order found among the normalized names.      *)
(***************************************************************************)
C7_LoadDataOutcome ==
    pc # "new" =>
      /\ calls[1].op = "load_data"
      /\ calls[1].err = ClaimedLoadError
      /\ calls[1].err = "none" =>
           \E k \in DOMAIN ClaimedPriority :
              /\ obj.weather_time_col = ClaimedPriority[k]
              /\ ClaimedPriority[k] \in NormalizedNames(fs.weather)
              /\ \A j \in 1..(k - 1) :
                    ClaimedPriority[j] \notin NormalizedNames(fs.weather)

\* Built from a weather file whose first column is "time" and whose second
\* is "timestamp": timestamp is resolved.
C7_Witness ==
    /\ pc = "ready"
    /\ fs.weather.cols[1] = "time"
    /\ obj.weather_time_col = "timestamp"

(***************************************************************************)
(* C1: every row enrich_with_weather returns has a non-null accept_time,   *)
(* its time_weather is the greatest parseable weather timestamp <= its     *)
(* accept_time, never a later one, and when there is none its time_weather *)
(* and all its weather measurements are null.                              *)
(***************************************************************************)
\* The instants named by the parseable cells of the resolved weather column.
WeatherTimes ==
    {fs.weather.rows[i][j].v :
        i \in {a \in DOMAIN fs.weather.rows :
                 \E b \in DOMAIN fs.weather.cols :
                    /\ StripLower(fs.weather.cols[b]) = obj.weather_time_col
                    /\ fs.weather.rows[a][b].k = "tstr"},
        j \in {b \in DOMAIN fs.weather.cols :
                 StripLower(fs.weather.cols[b]) = obj.weather_time_col}}

LatestNotAfter(a) ==
    LET earlier == {t \in WeatherTimes : t <= a}
    IN  IF earlier = {} THEN NaT
        ELSE Ts(CHOOSE t \in earlier : \A u \in earlier : u <= t)

MeasureNames ==
    MeasureCols \cup {m \o "_x" : m \in MeasureCols}
                \cup {m \o "_y" : m \in MeasureCols}

WeatherReturns ==
    {n \in DOMAIN calls :
        calls[n].op = "enrich_with_weather" /\ calls[n].err = "none"}

C1_AsofJoinLatestNotAfter ==
    \A n \in WeatherReturns :
      LET t == calls[n].out
      IN  /\ HasCol(t, "accept_time") /\ HasCol(t, "time_weather")
          /\ \A i \in DOMAIN t.rows :
               LET a == t.rows[i][ColIndex(t, "accept_time")]
               IN  /\ a.k = "ts"
                   /\ \A j \in DOMAIN t.cols :
                        /\ t.cols[j] = "time_weather" =>
                             t.rows[i][j] = LatestNotAfter(a.v)
                        /\ (t.cols[j] \in MeasureNames
                              /\ LatestNotAfter(a.v) = NaT) =>
                             IsNull(t.rows[i][j])

\* A returned table with a row joined to an earlier observation although a
\* later one is on file, and a row joined to the observation of its own
\* accept_time.
C1_Witness ==
    \E n \in WeatherReturns :
      LET t == calls[n].out
          aj == ColIndex(t, "accept_time")
          wj == ColIndex(t, "time_weather")
      IN  /\ \E i \in DOMAIN t.rows :
               /\ t.rows[i][wj].k = "ts"
               /\ t.rows[i][wj].v < t.rows[i][aj].v
               /\ \E u \in WeatherTimes : u > t.rows[i][aj].v
          /\ \E i \in DOMAIN t.rows : t.rows[i][wj] = t.rows[i][aj]

\* A returned row with no observation at or before its accept_time: its
\* time_weather and its humidity are null.
C1_UnmatchedRowReached ==
    \E n \in WeatherReturns :
      LET t == calls[n].out
      IN  \E i \in DOMAIN t.rows :
            /\ t.rows[i][ColIndex(t, "time_weather")] = NaT
            /\ t.rows[i][ColIndex(t, RH)] = NaN

(***************************************************************************)
(* C8 as stated: both enrichment steps are idempotent: a second call of    *)
(* enrich_with_weather, or of enrich_with_traffic_and_vehicles, right      *)
(* after the first returns a table equal to the one the first returned.    *)
(***************************************************************************)
EnrichOps == {"enrich_with_weather", "enrich_with_traffic_and_vehicles"}

C8_Original ==
    \A n \in DOMAIN calls :
      (/\ n > 1
       /\ calls[n].op \in EnrichOps
       /\ calls[n - 1].op = calls[n].op) =>
         /\ calls[n].err = "none"
         /\ calls[n].out = calls[n - 1].out

\* What does hold: the traffic step alone is idempotent.
TrafficEnrichmentIdempotent ==
    \A n \in DOMAIN calls :
      (/\ n > 1
       /\ calls[n].op = "enrich_with_traffic_and_vehicles"
       /\ calls[n - 1].op = calls[n].op) =>
         /\ calls[n].err = "none"
         /\ calls[n].out = calls[n - 1].out

(***************************************************************************)
(* C9 as stated: with accept_time but no delivery_time in the delivery     *)
(* file (and nothing else wrong with the files) the constructor,           *)
(* enrich_with_weather and enrich_with_traffic_and_vehicles all complete   *)
(* without an error, and every row gets a traffic label of {Low, Medium,   *)
(* High, Jam}.                                                             *)
(***************************************************************************)
C9_Original ==
    (/\ ClaimedLoadError = "none"
     /\ "delivery_time" \notin NormalizedNames(fs.delivery)) =>
       \A n \in DOMAIN calls :
         /\ calls[n].err = "none"
         /\ calls[n].op = "enrich_with_traffic_and_vehicles" =>
              LET t == calls[n].out
              IN  /\ HasCol(t, "Traffic_Label")
                  /\ \A i \in DOMAIN t.rows :
                        t.rows[i][ColIndex(t, "Traffic_Label")] \in
                          {Str("Low"), Str("Medium"), Str("High"), Str("Jam")}


(***************************************************************************)
(* DataAligner: what align returns, and the ETA target of the two          *)
(* transforms.                                                             *)
(***************************************************************************)
\* The cell of row i of t under the column named c.
CellAt(t, i, c) == t.rows[i][ColIndex(t, c)]

\* Row i of out carries, column by column, what row j of t carries.
SameRow(out, i, t, j) ==
    /\ Range(t.cols) \subseteq Range(out.cols)
    /\ \A c \in Range(t.cols) : CellAt(out, i, c) = CellAt(t, j, c)

\* The two transformed sides of the aligner.
Side1 == transform_delivery_dataset(aligner.enriched_df).out
Side2 == transform_amazon_dataset(aligner.amazon_df).out

AlignReturned == last.op = "align" /\ last.err = "none"

\* C5: when align returns, then: with both transformed sides non-empty the
\* result is the delivery side's rows followed by the external provider's
\* rows, each in their own order, under the index 0..n-1, n the sum of the
\* two row counts; with exactly one side empty the result is the other side
\* as transformed, same rows and same columns; with both empty the result
\* has no rows.
C5_AlignConcatenates ==
    AlignReturned =>
      LET out == last.out
          n1 == Len(Side1.rows)
          n2 == Len(Side2.rows)
      IN  CASE IsEmpty(Side1) /\ IsEmpty(Side2) -> Len(out.rows) = 0
            [] IsEmpty(Side1) /\ ~IsEmpty(Side2) ->
                 out.rows = Side2.rows /\ out.cols = Side2.cols
            [] ~IsEmpty(Side1) /\ IsEmpty(Side2) ->
                 out.rows = Side1.rows /\ out.cols = Side1.cols
            [] OTHER ->
                 /\ Len(out.rows) = n1 + n2
                 /\ out.index = [i \in 1..(n1 + n2) |-> i - 1]
                 /\ \A i \in 1..n1 : SameRow(out, i, Side1, i)
                 /\ \A i \in 1..n2 : SameRow(out, n1 + i, Side2, i)

\* Both sides have rows, the delivery side came with an index that does not
\* start at 0, and align has returned the concatenation.
C5_Witness ==
    /\ AlignReturned
    /\ Len(Side1.rows) = 2
    /\ Len(Side2.rows) = 2
    /\ Side1.index[1] = 5
    /\ Side1.rows[1] # Side1.rows[2]
    /\ Len(last.out.rows) = 4

\* Exactly one side is empty: align has returned the other side, whose
\* index is the one the side came with.
C5_OneSideEmptyReached ==
    /\ AlignReturned
    /\ IsEmpty(Side2)
    /\ Len(Side1.rows) = 2
    /\ last.out = Side1
    /\ last.out.index = <<5, 6>>

\* Both sides are empty and align has returned.
C5_BothEmptyReached ==
    /\ AlignReturned
    /\ IsEmpty(Side1)
    /\ IsEmpty(Side2)
    /\ aligner.enriched_df.cols # <<>>

IsTs(x) == x.k = "ts"

\* The float x is m minutes.
IsMinutes(x, secs) == x.k = "frac" /\ x.v[1] * 60 = secs * x.v[2]

TransformReturned ==
    /\ last.op \in {"transform_delivery_dataset", "transform_amazon_dataset"}
    /\ last.err = "none"

\* C6: in what either transform returns, a row whose pickup_time and
\* delivery_time are both timestamps has an ETA_target of their difference
\* in minutes, whatever ETA_target the input carried; and an external
\* provider's row whose Order_Date and Order_Time parse (Order_Time read as
\* midnight when missing) has that date and time as pickup_time, a null
\* weather and, when Delivery_Time is a number, pickup_time plus that many
\* minutes as delivery_time and Delivery_Time as ETA_target.
C6_EtaRecomputed ==
    TransformReturned =>
      LET out == last.out IN
      /\ \A i \in DOMAIN out.rows :
           LET p == CellAt(out, i, "pickup_time")
               d == CellAt(out, i, "delivery_time")
           IN  (IsTs(p) /\ IsTs(d)) =>
                  IsMinutes(CellAt(out, i, "ETA_target"), d.v - p.v)
      /\ last.op = "transform_amazon_dataset" =>
           \A i \in DOMAIN out.rows :
             LET in == aligner.amazon_df
                 date == CellAt(in, i, "Order_Date")
                 time == CellAt(in, i, "Order_Time")
                 mins == CellAt(in, i, "Delivery_Time")
                 tod == IF IsNull(time) THEN 0 ELSE time.v
                 p == CellAt(out, i, "pickup_time")
             IN  /\ CellAt(out, i, "weather") = None
                 /\ (date.k = "dstr" /\ (IsNull(time) \/ time.k = "todstr"))
                      => /\ p = Ts(date.v * SecondsPerDay + tod)
                         /\ mins.k = "num" =>
                              /\ CellAt(out, i, "delivery_time")
                                   = Ts(p.v + mins.v * 60)
                              /\ IsMinutes(CellAt(out, i, "ETA_target"),
                                           mins.v * 60)

\* transform_delivery_dataset has turned a table with a stale ETA_target of
\* 99 into rows of 45 and of -30 minutes.
C6_Witness ==
    /\ last.op = "transform_delivery_dataset"
    /\ last.err = "none"
    /\ HasCol(aligner.enriched_df, "ETA_target")
    /\ Len(last.out.rows) = 2
    /\ CellAt(aligner.enriched_df, 1, "ETA_target") = Num(99)
    /\ IsMinutes(CellAt(last.out, 1, "ETA_target"), 45 * 60)
    /\ IsMinutes(CellAt(last.out, 2, "ETA_target"), (0 - 30) * 60)

\* transform_amazon_dataset has returned a 10:00 order of 45 minutes and an
\* order without Order_Time, read as placed at midnight, of 30 minutes.
C6_AmazonReached ==
    /\ last.op = "transform_amazon_dataset"
    /\ last.err = "none"
    /\ Len(last.out.rows) = 2
    /\ CellAt(last.out, 1, "pickup_time") = Ts(At(1, 10, 0))
    /\ CellAt(last.out, 1, "delivery_time") = Ts(At(1, 10, 45))
    /\ IsMinutes(CellAt(last.out, 1, "ETA_target"), 45 * 60)
    /\ CellAt(last.out, 2, "pickup_time") = Ts(At(1, 0, 0))
    /\ IsMinutes(CellAt(last.out, 2, "ETA_target"), 30 * 60)

\* A row without a usable timestamp has no ETA target.
C6_NullTimesReached ==
    /\ TransformReturned
    /\ \E i \in DOMAIN last.out.rows :
         /\ ~IsTs(CellAt(last.out, i, "pickup_time"))
         /\ CellAt(last.out, i, "ETA_target") = NaN

(***************************************************************************)
(* C11 as stated: no stage mutates the table of its predecessor.  For the  *)
(* DataIngest stages: a step leaves every table that exists as it is, and  *)
(* an enrichment step that returns hands back (and keeps in delivery_df) a *)
(* table that did not exist before, so the table enrich_with_weather       *)
(* returned gains no Traffic_Label from a later                            *)
(* enrich_with_traffic_and_vehicles and is not the table that step         *)
(* returns, and TrafficMockGenerator.generate leaves its argument as it    *)
(* was.                                                                    *)
(***************************************************************************)
NoTableMutated == \A id \in DOMAIN heap : heap'[id] = heap[id]

ReturnsNewTable ==
    (pc = "ready" /\ pc' = "ready") => obj'.delivery_df \notin DOMAIN heap

C11_Original == [][NoTableMutated /\ ReturnsNewTable]_vars

\* The step is a call of op.
StepOf(op) ==
    /\ Len(calls') = Len(calls) + 1
    /\ calls'[Len(calls')].op = op

\* What does hold: the constructor and enrich_with_weather mutate no table,
\* and enrich_with_weather returns a new one.
WeatherEnrichmentCopies ==
    [][(StepOf("load_data") \/ StepOf("enrich_with_weather")) =>
          (NoTableMutated /\ ReturnsNewTable)]_vars

\* What does hold: the DataAligner's methods work on copies of enriched_df
\* and amazon_df, which stay as they were.
AlignerInputsUnchanged == [][aligner' = aligner]_vars

\* The table enrich_with_weather returned is the one
\* enrich_with_traffic_and_vehicles returned afterwards, and it now carries
\* a Traffic_Label column it did not have when it was returned.
C11_SameTableReached ==
    \E n \in DOMAIN calls : \E m \in DOMAIN calls :
      /\ n < m
      /\ calls[n].op = "enrich_with_weather" /\ calls[n].err = "none"
      /\ calls[m].op = "enrich_with_traffic_and_vehicles"
      /\ calls[m].err = "none"
      /\ calls[m].ret = calls[n].ret
      /\ ~HasCol(calls[n].out, "Traffic_Label")
      /\ HasCol(heap[calls[n].ret], "Traffic_Label")
      /\ calls[n].out.rows # <<>>

=============================================================================
